---- MODULE Spec2Model ----
(***************************************************************************)
(* A model of the empty-folder scanner and deleter (processor.py), the     *)
(* scan cache and the error log (utils.py) and the caller's tail           *)
(* (gui.py, MainWindow._delete_selected), over a small file system.        *)
(*                                                                         *)
(* A path is a Python str, modelled as a sequence of one-character         *)
(* strings, so that len(), str.startswith() and the ordering of str are    *)
(* computed on characters as the code computes them.                       *)
(***************************************************************************)
EXTENDS Integers, Sequences, FiniteSets, TLC

----------------------------------------------------------------------------
(* Bounds of the model *)

\* largest max_pass a caller passes (the GUI passes 3)
MaxPass == 3
\* largest number of faults that arise in one session
MaxFaults == 1
\* last value of the wall clock, in seconds (the resolution of the log name)
MaxClock == 1
\* largest number of calls of the scanner and the deleter in one session
MaxCalls == 2
\* the number of scans in a session of scans only
MaxScans == 3

----------------------------------------------------------------------------
(* The file system universe *)

pA == <<"a">>
pB == <<"a", "/", "b">>
pC == <<"a", "/", "b", "/", "c">>
pAB == <<"a", "b">>
TreeDirs == {pA, pB, pC, pAB}

q1 == <<"p">>
q2 == <<"q", "q">>
q3 == <<"r", "r">>
q4 == <<"s", "s", "s">>
q5 == <<"t", "t", "t">>
FlatDirs == {q1, q2, q3, q4, q5}

Dirs == TreeDirs \cup FlatDirs

\* the non-directory entries a directory may hold
nThumbs == <<"T", "h", "u", "m", "b", "s", ".", "d", "b">>
nIni == <<"d", "e", "s", "k", "t", "o", "p", ".", "i", "n", "i">>
nStore == <<".", "D", "S", "_", "S", "t", "o", "r", "e">>
nText == <<"a", ".", "t", "x", "t">>
gThumbs == [name |-> nThumbs, kind |-> "file"]
gIni == [name |-> nIni, kind |-> "file"]
gLink == [name |-> nStore, kind |-> "link"]
fText == [name |-> nText, kind |-> "file"]
FileEntries == {gThumbs, gIni, gLink, fText}

IGNORABLE_FILES == {nThumbs, nIni, nStore}

\* what can be wrong with a directory
\*   noaccess: an ancestor is not searchable: stat, scandir, chmod, rmdir fail
\*   noread:   the directory is not readable: scandir fails
\*   normdir:  the directory cannot be removed (parent not writable, in use)
\*   noremove: the directory is not writable: removing its files fails
\*   nochmod:  the directory is not ours: chmod fails
Faults == {"noaccess", "noread", "normdir", "noremove", "nochmod"}

\* Python's None
None == <<>>
\* no log file of that name
NoLog == [target |-> <<>>, err |-> "none"]

----------------------------------------------------------------------------
(* str and os.path helpers *)

\* ord() of the characters that occur in the paths
Ord(c) ==
    CASE c = "/" -> 47
      [] c = "a" -> 97
      [] c = "b" -> 98
      [] c = "c" -> 99
      [] c = "p" -> 112
      [] c = "q" -> 113
      [] c = "r" -> 114
      [] c = "s" -> 115
      [] c = "t" -> 116

\* str.startswith
StartsWith(k, root) ==
    /\ Len(root) <= Len(k)
    /\ SubSeq(k, 1, Len(root)) = root

\* str < str
RECURSIVE StrLess(_, _)
StrLess(s, t) ==
    IF t = <<>> THEN FALSE
    ELSE IF s = <<>> THEN TRUE
    ELSE IF Ord(Head(s)) # Ord(Head(t)) THEN Ord(Head(s)) < Ord(Head(t))
    ELSE StrLess(Tail(s), Tail(t))

\* index of the last "/" of p, 0 when there is none
RECURSIVE LastSep(_, _)
LastSep(p, i) ==
    IF i = 0 THEN 0
    ELSE IF p[i] = "/" THEN i
    ELSE LastSep(p, i - 1)

\* os.path.basename
Basename(p) == SubSeq(p, LastSep(p, Len(p)) + 1, Len(p))

\* os.path.dirname
Dirname(p) ==
    IF LastSep(p, Len(p)) = 0 THEN <<>>
    ELSE SubSeq(p, 1, LastSep(p, Len(p)) - 1)

Range(s) == {s[i] : i \in 1..Len(s)}

\* the sequences that list the set S once each
Orders(S) ==
    {s \in [1..Cardinality(S) -> S] : \A i, j \in 1..Cardinality(S) : i # j => s[i] # s[j]}

\* list.remove(x): drops the first occurrence
RECURSIVE ListRemove(_, _)
ListRemove(s, x) ==
    IF s = <<>> THEN <<>>
    ELSE IF Head(s) = x THEN Tail(s)
    ELSE <<Head(s)>> \o ListRemove(Tail(s), x)

\* os.path.join(d, name)
Join(d, name) == d \o <<"/">> \o name

----------------------------------------------------------------------------
(* State *)

VARIABLES
    exists,      \* the directories on disk
    files,       \* directory -> its non-directory entries
    mtime,       \* directory -> st_mtime, moved by every change of its entries
    fault,       \* directory -> "none" or what is wrong with it
    SCAN_CACHE,  \* utils.SCAN_CACHE: path -> <<mtime, effective count>>
    now,         \* datetime.now(), in seconds
    logFiles,    \* log file name (its timestamp) -> the record it holds
    pc,          \* where the program is
    sc,          \* frame of find_empty_folders
    dl,          \* frame of delete_empty_folders
    last,        \* how the last call ended and what it returned
    progress,    \* the progress_cb calls of the current delete run
    runLog,      \* the save_error_log calls of the current call
    removed,     \* the directories the current delete run removed from disk
    lastEval,    \* the last evaluation by is_dir_empty_cached
    evalHist,    \* path -> <<mtime, verdict>> of its last cached evaluation
    calls,       \* the calls of the scanner and the deleter so far
    injected,    \* the faults that arose so far
    before       \* the disk as the current delete run found it

fsVars == <<exists, files, mtime, fault>>
logVars == <<now, logFiles>>
vars == <<exists, files, mtime, fault, SCAN_CACHE, now, logFiles, pc, sc, dl, last,
          progress, runLog, removed, lastEval, evalHist, calls, injected, before>>

----------------------------------------------------------------------------
(* The file system calls *)

\* os.stat(p)
Stat(p) ==
    IF p \notin exists THEN [err |-> "FileNotFoundError", st_mtime |-> 0]
    ELSE IF fault[p] = "noaccess" THEN [err |-> "PermissionError", st_mtime |-> 0]
    ELSE [err |-> "ok", st_mtime |-> mtime[p]]

\* os.path.isdir(p): False on every OSError of the stat
IsDir(p) == Stat(p).err = "ok"

\* the error of os.scandir(p) with the faults flt on the directories ex
ScandirErr(ex, flt, p) ==
    IF p \notin ex THEN "FileNotFoundError"
    ELSE IF flt[p] \in {"noaccess", "noread"} THEN "PermissionError"
    ELSE "ok"

\* the entries of directory d: its subdirectories and the files fs holds for it
EntriesOf(ex, fs, d) ==
    {[name |-> Basename(c), kind |-> "dir"] : c \in {x \in ex : Dirname(x) = d}}
        \cup (IF d \in Dirs THEN fs[d] ELSE {})

\* os.scandir yields the entries in an order of its own
Listings(ex, fs, d) == Orders(EntriesOf(ex, fs, d))

\* the error of os.rmdir(p)
RmdirErr(ex, fs, flt, p) ==
    IF p \notin ex THEN "FileNotFoundError"
    ELSE IF flt[p] \in {"noaccess", "normdir"} THEN "PermissionError"
    ELSE IF EntriesOf(ex, fs, p) # {} THEN "OSError"
    ELSE "ok"

\* os.chmod(folder, rwx) on a directory: gives the owner back the write bit
ChmodDir(flt, p) ==
    IF flt[p] = "noremove" THEN [flt EXCEPT ![p] = "none"] ELSE flt

\* the error of os.chmod(entry.path); os.remove(entry.path) in directory d
RemoveErr(flt, d) ==
    IF flt[d] \in {"noaccess", "noremove"} THEN "PermissionError" ELSE "ok"

----------------------------------------------------------------------------
(* utils.py: error log and scan cache *)

\* save_error_log(target_path, error_message) at time t: the name of the file
\* is the timestamp, and the file is opened with "w"
save_error_log(lf, t, rec) == [lf EXCEPT ![t] = rec]

\* the calls save_error_log(rec) for rec in recs, the first not before time t:
\* every <<log files, time of the last call>> they may leave
RECURSIVE SaveAll(_, _, _)
SaveAll(lf, t, recs) ==
    IF recs = <<>> THEN {<<lf, t>>}
    ELSE UNION {SaveAll(save_error_log(lf, u, Head(recs)), u, Tail(recs)) : u \in t..MaxClock}

cache_get(cache, path) == IF path \in DOMAIN cache THEN cache[path] ELSE None

\* cache_set that stores the pair the other way round
cache_set_swapped(cache, path, m, effective_count) ==
    [k \in DOMAIN cache \cup {path} |->
        IF k = path THEN <<effective_count, m>> ELSE cache[k]]

\* cache_set that stores the count 0 whatever was counted
cache_set_zero(cache, path, m, effective_count) ==
    [k \in DOMAIN cache \cup {path} |-> IF k = path THEN <<m, 0>> ELSE cache[k]]

cache_set(cache, path, m, effective_count) ==
    [k \in DOMAIN cache \cup {path} |->
        IF k = path THEN <<m, effective_count>> ELSE cache[k]]

\* cache_clear_under that stops at the boundary of a path component
cache_clear_below(cache, root) ==
    [k \in {x \in DOMAIN cache : ~(x = root \/ StartsWith(x, root \o <<"/">>))} |-> cache[k]]

cache_clear_under(cache, root) ==
    [k \in {x \in DOMAIN cache : ~StartsWith(x, root)} |-> cache[k]]

\* the loop over cache_clear_under that clears nothing
ClearNothing(cache, roots) == cache

RECURSIVE ClearAll(_, _)
ClearAll(cache, roots) ==
    IF roots = <<>> THEN cache
    ELSE ClearAll(cache_clear_under(cache, Head(roots)), Tail(roots))

----------------------------------------------------------------------------
(* processor.py: the emptiness tests and the garbage sweeper *)

RECURSIVE IsEmptyLoop(_, _, _)
IsEmptyLoop(listing, i, ignore_known_garbage) ==
    IF i > Len(listing) THEN TRUE
    ELSE IF listing[i].kind = "dir" THEN FALSE
    ELSE IF ignore_known_garbage /\ listing[i].name \in IGNORABLE_FILES
         THEN IsEmptyLoop(listing, i + 1, ignore_known_garbage)
    ELSE FALSE

\* _is_effectively_empty that takes what it cannot list for empty
IsEffectivelyEmptyFailOpen(dirpath, ignore_known_garbage, err, listing) ==
    IF err # "ok"
    THEN [ret |-> TRUE, log |-> <<[target |-> dirpath, err |-> err]>>]
    ELSE [ret |-> IsEmptyLoop(listing, 1, ignore_known_garbage), log |-> <<>>]

\* _is_effectively_empty(dirpath, ignore_known_garbage), scandir having ended
\* with err and, when it worked, yielded listing
IsEffectivelyEmpty(dirpath, ignore_known_garbage, err, listing) ==
    IF err # "ok"
    THEN [ret |-> FALSE, log |-> <<[target |-> dirpath, err |-> err]>>]
    ELSE [ret |-> IsEmptyLoop(listing, 1, ignore_known_garbage), log |-> <<>>]

\* CountLoop without the test for a subdirectory
RECURSIVE CountLoopNoDirTest(_, _, _, _)
CountLoopNoDirTest(listing, i, count, ignore_known_garbage) ==
    IF i > Len(listing) THEN 0
    ELSE IF listing[i].kind = "dir" \/ (ignore_known_garbage /\ listing[i].name \in IGNORABLE_FILES)
         THEN CountLoopNoDirTest(listing, i + 1, count, ignore_known_garbage)
    ELSE count + 1

\* CountLoop that skips the ignorable names whatever the flag
RECURSIVE CountLoopAlwaysIgnore(_, _, _, _)
CountLoopAlwaysIgnore(listing, i, count, ignore_known_garbage) ==
    IF i > Len(listing) THEN 0
    ELSE IF listing[i].kind = "dir" THEN 1
    ELSE IF listing[i].name \in IGNORABLE_FILES
         THEN CountLoopAlwaysIgnore(listing, i + 1, count, ignore_known_garbage)
    ELSE count + 1

RECURSIVE CountLoop(_, _, _, _)
CountLoop(listing, i, count, ignore_known_garbage) ==
    IF i > Len(listing) THEN 0
    ELSE IF listing[i].kind = "dir" THEN 1
    ELSE IF ignore_known_garbage /\ listing[i].name \in IGNORABLE_FILES
         THEN CountLoop(listing, i + 1, count, ignore_known_garbage)
    ELSE IF count + 1 > 0 THEN count + 1
    ELSE CountLoop(listing, i + 1, count + 1, ignore_known_garbage)

\* _effective_count that takes what it cannot list for empty
EffectiveCountFailOpen(dirpath, ignore_known_garbage, err, listing) ==
    IF err # "ok"
    THEN [ret |-> 0, log |-> <<[target |-> dirpath, err |-> err]>>]
    ELSE [ret |-> CountLoop(listing, 1, 0, ignore_known_garbage), log |-> <<>>]

\* _effective_count(dirpath, ignore_known_garbage)
EffectiveCount(dirpath, ignore_known_garbage, err, listing) ==
    IF err # "ok"
    THEN [ret |-> 1, log |-> <<[target |-> dirpath, err |-> err]>>]
    ELSE [ret |-> CountLoop(listing, 1, 0, ignore_known_garbage), log |-> <<>>]

\* GarbageLoop that removes every file, whatever its name
RECURSIVE GarbageLoopAnyName(_, _, _, _)
GarbageLoopAnyName(dirpath, listing, i, rmErr) ==
    IF i > Len(listing) THEN [gone |-> {}, log |-> <<>>]
    ELSE LET rest == GarbageLoopAnyName(dirpath, listing, i + 1, rmErr)
             entry == listing[i]
         IN  IF entry.kind = "file" /\ rmErr = "ok"
             THEN [gone |-> {entry} \cup rest.gone, log |-> rest.log]
             ELSE rest

RECURSIVE GarbageLoop(_, _, _, _)
GarbageLoop(dirpath, listing, i, rmErr) ==
    IF i > Len(listing) THEN [gone |-> {}, log |-> <<>>]
    ELSE LET rest == GarbageLoop(dirpath, listing, i + 1, rmErr)
             entry == listing[i]
         IN  IF entry.kind = "file" /\ entry.name \in IGNORABLE_FILES
             THEN IF rmErr = "ok"
                  THEN [gone |-> {entry} \cup rest.gone, log |-> rest.log]
                  ELSE [gone |-> rest.gone,
                        log |-> <<[target |-> Join(dirpath, entry.name), err |-> rmErr]>>
                                    \o rest.log]
             ELSE rest

\* _delete_known_garbage that removes nothing
DeleteKnownGarbageKeep(dirpath, err, listing, rmErr) ==
    IF err # "ok"
    THEN [gone |-> {}, log |-> <<[target |-> dirpath, err |-> err]>>]
    ELSE [gone |-> {}, log |-> <<>>]

\* _delete_known_garbage(dirpath): the files it removes and what it logs
DeleteKnownGarbage(dirpath, err, listing, rmErr) ==
    IF err # "ok"
    THEN [gone |-> {}, log |-> <<[target |-> dirpath, err |-> err]>>]
    ELSE GarbageLoop(dirpath, listing, 1, rmErr)

----------------------------------------------------------------------------
(* processor.py: find_empty_folders *)

\* is_dir_empty_cached(p) of find_empty_folders: st is os.stat(p), err and
\* listing what os.scandir(p) gives if _effective_count comes to call it
is_dir_empty_cached(p, ignore_known_garbage, fast_rescan, st, cache, err, listing) ==
    LET fresh == EffectiveCount(p, ignore_known_garbage, err, listing)
        cached == cache_get(cache, p)
        quiet == [raised |-> FALSE, ret |-> FALSE, count |-> 1, cache |-> cache,
                  log |-> <<>>, enumerated |-> FALSE, cacheRead |-> FALSE]
    IN  IF ~fast_rescan
        THEN [quiet EXCEPT !.ret = fresh.ret = 0, !.count = fresh.ret, !.log = fresh.log,
                           !.enumerated = TRUE]
        ELSE IF st.err = "FileNotFoundError" THEN quiet
        ELSE IF st.err # "ok" THEN [quiet EXCEPT !.raised = TRUE]
        ELSE IF cached # None /\ cached[1] = st.st_mtime
        THEN [quiet EXCEPT !.ret = cached[2] = 0, !.count = cached[2], !.cacheRead = TRUE]
        ELSE [quiet EXCEPT !.ret = fresh.ret = 0, !.count = fresh.ret, !.log = fresh.log,
                           !.cache = cache_set(cache, p, st.st_mtime, fresh.ret),
                           !.enumerated = TRUE, !.cacheRead = TRUE]

\* the set of found in descending order
SortedSetDescending(found) ==
    CHOOSE s \in Orders(Range(found)) :
        \A i, j \in 1..Len(s) : i < j => StrLess(s[j], s[i])

\* sorted(list(set(found)))
SortedSet(found) ==
    CHOOSE s \in Orders(Range(found)) :
        \A i, j \in 1..Len(s) : i < j => StrLess(s[i], s[j])

NoScan == [root_paths |-> <<>>, r |-> 1, stack |-> <<>>, found |-> <<>>,
           ignore_known_garbage |-> FALSE, fast_rescan |-> FALSE]

NoEval == [p |-> <<>>, fast_rescan |-> FALSE, st_mtime |-> 0, ret |-> FALSE, count |-> 1,
           raised |-> FALSE, enumerated |-> FALSE, cacheRead |-> FALSE,
           cacheSame |-> TRUE, failed |-> FALSE, prev |-> None]

\* the verdicts remembered for the keys that cache_clear_under(root) leaves
HistClear(hist, roots) ==
    [d \in Dirs |-> IF \E i \in 1..Len(roots) : StartsWith(d, roots[i]) THEN None ELSE hist[d]]

\* a call of find_empty_folders(root_paths, ignore_known_garbage, fast_rescan)
FindBegin(root_paths, ignore_known_garbage, fast_rescan) ==
    /\ pc = "idle"
    /\ calls' = calls + 1
    /\ pc' = "find"
    /\ sc' = [root_paths |-> root_paths, r |-> 1, stack |-> <<>>, found |-> <<>>,
              ignore_known_garbage |-> ignore_known_garbage, fast_rescan |-> fast_rescan]
    /\ runLog' = <<>>
    /\ lastEval' = NoEval
    /\ UNCHANGED <<fsVars, logVars, SCAN_CACHE, dl, last, progress, removed, evalHist,
                   injected, before>>

\* for root in root_paths: skip what is no directory, else start os.walk on it
FindRoot ==
    /\ pc = "find"
    /\ sc.stack = <<>>
    /\ sc.r <= Len(sc.root_paths)
    /\ LET root == sc.root_paths[sc.r]
       IN  sc' = [sc EXCEPT !.r = @ + 1,
                            !.stack = IF IsDir(root)
                                      THEN <<[path |-> root, yield |-> FALSE]>>
                                      ELSE <<>>]
    /\ UNCHANGED <<fsVars, logVars, SCAN_CACHE, pc, dl, last, progress, runLog, removed,
                   lastEval, evalHist, calls, injected, before>>

\* os.walk(root, topdown=False) comes to a directory: it lists it, walks its
\* subdirectories first and yields it after them; what it cannot list it skips
FindWalk ==
    /\ pc = "find"
    /\ sc.stack # <<>>
    /\ ~Head(sc.stack).yield
    /\ LET top == Head(sc.stack).path
           err == ScandirErr(exists, fault, top)
       IN  \E listing \in Listings(exists, files, top) :
             LET walk_dirs == SelectSeq(listing, LAMBDA e : e.kind = "dir")
                 below == [i \in 1..Len(walk_dirs) |->
                             [path |-> Join(top, walk_dirs[i].name), yield |-> FALSE]]
             IN  sc' = [sc EXCEPT !.stack =
                          IF err # "ok" THEN Tail(@)
                          ELSE below \o <<[path |-> top, yield |-> TRUE]>> \o Tail(@)]
    /\ UNCHANGED <<fsVars, logVars, SCAN_CACHE, pc, dl, last, progress, runLog, removed,
                   lastEval, evalHist, calls, injected, before>>

\* os.walk yields dirpath: if is_dir_empty_cached(dirpath): found.append(dirpath);
\* an exception of the check leaves find_empty_folders
FindVisit ==
    /\ pc = "find"
    /\ sc.stack # <<>>
    /\ Head(sc.stack).yield
    /\ LET dirpath == Head(sc.stack).path
           st == Stat(dirpath)
           err == ScandirErr(exists, fault, dirpath)
       IN  \E listing \in Listings(exists, files, dirpath) :
             LET e == is_dir_empty_cached(dirpath, sc.ignore_known_garbage,
                                          sc.fast_rescan, st, SCAN_CACHE, err, listing)
             IN  /\ SCAN_CACHE' = e.cache
                 /\ \E w \in SaveAll(logFiles, now, e.log) : logFiles' = w[1] /\ now' = w[2]
                 /\ runLog' = runLog \o e.log
                 /\ lastEval' = [p |-> dirpath, fast_rescan |-> sc.fast_rescan,
                                 st_mtime |-> st.st_mtime, ret |-> e.ret,
                                 count |-> e.count,
                                 raised |-> e.raised, enumerated |-> e.enumerated,
                                 cacheRead |-> e.cacheRead,
                                 cacheSame |-> e.cache = SCAN_CACHE,
                                 failed |-> e.enumerated /\ err # "ok",
                                 prev |-> evalHist[dirpath]]
                 /\ evalHist' = IF sc.fast_rescan /\ st.err = "ok"
                                THEN [evalHist EXCEPT ![dirpath] = <<st.st_mtime, e.ret>>]
                                ELSE evalHist
                 /\ IF e.raised
                    THEN /\ pc' = "idle"
                         /\ sc' = NoScan
                         /\ last' = [op |-> "find", status |-> "raised", value |-> <<>>,
                                     args |-> <<sc.root_paths, sc.ignore_known_garbage,
                                                sc.fast_rescan>>]
                    ELSE /\ pc' = pc
                         /\ sc' = [sc EXCEPT !.stack = Tail(@),
                                             !.found = IF e.ret THEN Append(@, dirpath) ELSE @]
                         /\ last' = last
    /\ UNCHANGED <<fsVars, dl, progress, removed, calls, injected, before>>

\* return sorted(list(set(found)))
FindReturn ==
    /\ pc = "find"
    /\ sc.stack = <<>>
    /\ sc.r > Len(sc.root_paths)
    /\ pc' = "idle"
    /\ last' = [op |-> "find", status |-> "returned", value |-> SortedSet(sc.found),
                args |-> <<sc.root_paths, sc.ignore_known_garbage, sc.fast_rescan>>]
    /\ sc' = NoScan
    /\ runLog' = <<>>
    /\ lastEval' = NoEval
    /\ UNCHANGED <<fsVars, logVars, SCAN_CACHE, dl, progress, removed, evalHist, calls,
                   injected, before>>

----------------------------------------------------------------------------
(* processor.py: delete_empty_folders *)

\* the sort of the folders together with their parent directories
LenSortedWithParents(folders) ==
    {s \in Orders(Range(folders) \cup ({Dirname(f) : f \in Range(folders)} \cap Dirs)) :
        \A i, j \in 1..Len(s) : i < j => Len(s[i]) >= Len(s[j])}

\* the set of folders in any order, the sort left out
LenUnsorted(folders) == Orders(Range(folders))

\* sorted(list(set(folders)), key=len, reverse=True): the sort is stable, and
\* the order of a set of str is any order
LenSorted(folders) ==
    {s \in Orders(Range(folders)) :
        \A i, j \in 1..Len(s) : i < j => Len(s[i]) >= Len(s[j])}

\* min that always takes its first argument
MinFirst(a, b) == a

Min(a, b) == IF a <= b THEN a ELSE b

NoDisk == [exists |-> {}, files |-> <<>>, fault |-> <<>>, last |-> <<>>, cache |-> <<>>]

NoDelete == [input |-> <<>>, folders |-> <<>>, total_target |-> 0, deleted_total |-> 0,
             curr |-> 0, attempt |-> 0, deleted_in_pass |-> 0, pass |-> <<>>, i |-> 1,
             has_cb |-> FALSE, remove_known_garbage_files |-> FALSE,
             ignore_known_garbage_for_empty |-> FALSE, max_pass |-> 0]

\* a call of delete_empty_folders, up to the first pass
DeleteBegin(folders, has_cb, remove_known_garbage_files, ignore_known_garbage_for_empty, max_pass) ==
    /\ pc = "idle"
    /\ calls' = calls + 1
    /\ progress' = <<>>
    /\ runLog' = <<>>
    /\ removed' = {}
    /\ before' = [exists |-> exists, files |-> files, fault |-> fault, last |-> last,
                  cache |-> SCAN_CACHE]
    /\ IF folders = <<>>
       THEN /\ pc' = "returned"
            /\ dl' = NoDelete
            /\ last' = [op |-> "delete", status |-> "returned", value |-> 0, args |-> <<>>]
       ELSE /\ \E sorted \in LenSorted(folders) :
                 dl' = [input |-> folders, folders |-> sorted, total_target |-> Len(sorted),
                        deleted_total |-> 0, curr |-> 0, attempt |-> 1,
                        deleted_in_pass |-> 0, pass |-> sorted, i |-> 1,
                        has_cb |-> has_cb,
                        remove_known_garbage_files |-> remove_known_garbage_files,
                        ignore_known_garbage_for_empty |-> ignore_known_garbage_for_empty,
                        max_pass |-> max_pass]
            /\ pc' = IF max_pass >= 1 THEN "attempt" ELSE "post"
            /\ last' = last
    /\ UNCHANGED <<fsVars, logVars, SCAN_CACHE, sc, lastEval, evalHist, injected>>

\* what one iteration of "for folder in list(folders)" does to the disk: the
\* sweep l1 and the emptiness test l2 each list the directory
AttemptOutcome(folder, l1, l2) ==
    LET err == ScandirErr(exists, fault, folder)
        g == IF dl.remove_known_garbage_files
             THEN DeleteKnownGarbage(folder, err, l1, RemoveErr(fault, folder))
             ELSE [gone |-> {}, log |-> <<>>]
        files1 == [files EXCEPT ![folder] = @ \ g.gone]
        mtime1 == IF g.gone # {} THEN [mtime EXCEPT ![folder] = @ + 1] ELSE mtime
        em == IsEffectivelyEmpty(folder, dl.ignore_known_garbage_for_empty, err, l2)
        fault1 == IF em.ret /\ fault[folder] \notin {"noaccess", "nochmod"}
                  THEN ChmodDir(fault, folder) ELSE fault
        rerr == RmdirErr(exists, files1, fault1, folder)
        parent == Dirname(folder)
    IN  IF ~IsDir(folder)
        THEN [gone |-> TRUE, rmdir |-> FALSE, exists |-> exists, files |-> files,
              mtime |-> mtime, fault |-> fault, log |-> <<>>]
        ELSE IF ~em.ret
        THEN [gone |-> FALSE, rmdir |-> FALSE, exists |-> exists, files |-> files1,
              mtime |-> mtime1, fault |-> fault1, log |-> g.log \o em.log]
        ELSE IF rerr # "ok"
        THEN [gone |-> FALSE, rmdir |-> FALSE, exists |-> exists, files |-> files1,
              mtime |-> mtime1, fault |-> fault1,
              log |-> g.log \o <<[target |-> folder, err |-> rerr]>>]
        ELSE [gone |-> FALSE, rmdir |-> TRUE, exists |-> exists \ {folder},
              files |-> files1,
              mtime |-> IF parent \in exists
                        THEN [mtime1 EXCEPT ![parent] = @ + 1] ELSE mtime1,
              fault |-> [fault1 EXCEPT ![folder] = "none"], log |-> g.log]

\* the files of folder once the sweep that lists l1 is through
AfterSweep(folder, l1) ==
    IF IsDir(folder) /\ dl.remove_known_garbage_files
    THEN [files EXCEPT ![folder] =
            @ \ DeleteKnownGarbage(folder, ScandirErr(exists, fault, folder), l1,
                                   RemoveErr(fault, folder)).gone]
    ELSE files

\* one iteration of "for folder in list(folders)", its finally clause included
DeleteAttempt ==
    /\ pc = "attempt"
    /\ dl.i <= Len(dl.pass)
    /\ LET folder == dl.pass[dl.i]
           curr == dl.curr + 1
           basename == IF Basename(folder) # <<>> THEN Basename(folder) ELSE folder
       IN  \E l1 \in Listings(exists, files, folder) :
           \E l2 \in Listings(exists, AfterSweep(folder, l1), folder) :
             LET o == AttemptOutcome(folder, l1, l2)
                 done == o.gone \/ o.rmdir
             IN  /\ exists' = o.exists
                 /\ files' = o.files
                 /\ mtime' = o.mtime
                 /\ fault' = o.fault
                 /\ \E w \in SaveAll(logFiles, now, o.log) : logFiles' = w[1] /\ now' = w[2]
                 /\ runLog' = runLog \o o.log
                 /\ removed' = IF o.rmdir THEN removed \cup {folder} ELSE removed
                 /\ dl' = [dl EXCEPT !.curr = curr,
                                     !.deleted_in_pass = IF done THEN @ + 1 ELSE @,
                                     !.folders = IF done THEN ListRemove(@, folder) ELSE @,
                                     !.i = @ + 1]
                 /\ progress' = IF dl.has_cb
                                THEN Append(progress,
                                            [current |-> Min(curr, dl.total_target),
                                             total |-> dl.total_target,
                                             name |-> basename])
                                ELSE progress
    /\ pc' = pc
    /\ UNCHANGED <<SCAN_CACHE, sc, last, lastEval, evalHist, calls, injected, before>>

\* DeletePassEnd without the break on a pass that deleted nothing
DeletePassEndNoBreak ==
    /\ pc = "attempt"
    /\ dl.i > Len(dl.pass)
    /\ LET more == dl.attempt < dl.max_pass
       IN  /\ dl' = [dl EXCEPT !.deleted_total = @ + dl.deleted_in_pass,
                               !.attempt = IF more THEN @ + 1 ELSE @,
                               !.deleted_in_pass = IF more THEN 0 ELSE @,
                               !.pass = IF more THEN dl.folders ELSE @,
                               !.i = IF more THEN 1 ELSE @]
           /\ pc' = IF more THEN "attempt" ELSE "post"
    /\ UNCHANGED <<fsVars, logVars, SCAN_CACHE, sc, last, progress, runLog, removed,
                   lastEval, evalHist, calls, injected, before>>

\* the end of a pass: deleted_total += deleted_in_pass; break on a pass that
\* deleted nothing or on the last pass, else start the next pass
DeletePassEnd ==
    /\ pc = "attempt"
    /\ dl.i > Len(dl.pass)
    /\ LET more == dl.deleted_in_pass # 0 /\ dl.attempt < dl.max_pass
       IN  /\ dl' = [dl EXCEPT !.deleted_total = @ + dl.deleted_in_pass,
                               !.attempt = IF more THEN @ + 1 ELSE @,
                               !.deleted_in_pass = IF more THEN 0 ELSE @,
                               !.pass = IF more THEN dl.folders ELSE @,
                               !.i = IF more THEN 1 ELSE @]
           /\ pc' = IF more THEN "attempt" ELSE "post"
    /\ UNCHANGED <<fsVars, logVars, SCAN_CACHE, sc, last, progress, runLog, removed,
                   lastEval, evalHist, calls, injected, before>>

\* after the passes: for f in folders: utils.cache_clear_under(f); return
DeleteReturn ==
    /\ pc = "post"
    /\ SCAN_CACHE' = ClearAll(SCAN_CACHE, dl.folders)
    /\ evalHist' = HistClear(evalHist, dl.folders)
    /\ last' = [op |-> "delete", status |-> "returned", value |-> dl.deleted_total,
                args |-> <<>>]
    /\ pc' = "returned"
    /\ UNCHANGED <<fsVars, logVars, sc, dl, progress, runLog, removed, lastEval, calls,
                   injected, before>>

----------------------------------------------------------------------------
(* gui.py: what MainWindow._delete_selected does once the deleter is back *)

\* for t in targets: utils.cache_clear_under(t)
DeleteSelectedTail ==
    /\ pc = "returned"
    /\ SCAN_CACHE' = ClearAll(SCAN_CACHE, dl.input)
    /\ evalHist' = HistClear(evalHist, dl.input)
    /\ pc' = "idle"
    /\ dl' = NoDelete
    /\ progress' = <<>>
    /\ runLog' = <<>>
    /\ removed' = {}
    /\ before' = NoDisk
    /\ UNCHANGED <<fsVars, logVars, sc, last, lastEval, calls, injected>>

----------------------------------------------------------------------------
(* The environment: permissions change and time passes *)

FaultSet(d, f) ==
    /\ d \in exists
    /\ fault[d] = "none"
    /\ injected < MaxFaults
    /\ injected' = injected + 1
    /\ fault' = [fault EXCEPT ![d] = f]
    /\ UNCHANGED <<logVars, exists, files, mtime, SCAN_CACHE, pc, sc, dl, last, progress,
                   runLog, removed, lastEval, evalHist, calls, before>>

FaultClear(d) ==
    /\ fault[d] # "none"
    /\ fault' = [fault EXCEPT ![d] = "none"]
    /\ UNCHANGED <<logVars, exists, files, mtime, SCAN_CACHE, pc, sc, dl, last, progress,
                   runLog, removed, lastEval, evalHist, calls, injected, before>>

----------------------------------------------------------------------------
(* Specifications *)

\* the state of a program that has just started, on the disk (ex, fs)
Start(ex, fs, flt) ==
    /\ exists = ex
    /\ files = fs
    /\ mtime = [d \in Dirs |-> 1]
    /\ fault = flt
    /\ SCAN_CACHE = <<>>
    /\ now = 0
    /\ logFiles = [t \in 0..MaxClock |-> NoLog]
    /\ pc = "idle"
    /\ sc = NoScan
    /\ dl = NoDelete
    /\ last = [op |-> "none", status |-> "returned", value |-> 0, args |-> <<>>]
    /\ progress = <<>>
    /\ runLog = <<>>
    /\ removed = {}
    /\ lastEval = NoEval
    /\ evalHist = [d \in Dirs |-> None]
    /\ calls = 0
    /\ injected = 0
    /\ before = NoDisk

NoFiles == [d \in Dirs |-> {}]
NoFaults == [d \in Dirs |-> "none"]

\* the list of the set S, in the order of str
ListOf(S) == SortedSet(CHOOSE s \in Orders(S) : TRUE)

\* the tree a > b > c next to ab: c holds some files, ab one ignorable file
TreeDisks ==
    {[NoFiles EXCEPT ![pC] = fc, ![pAB] = {gThumbs}] :
        fc \in {{}, {gThumbs}, {gThumbs, gIni}, {fText}, {gLink}}}

TreeRoots == {<<pA>>, <<pB, pA, pAB>>}

TreeFolders == {<<>>, <<pC>>, <<pC, pAB, pC>>, <<pA, pB, pC>>, <<pB, pAB>>}

\* five directories side by side, some holding ignorable files
FlatDisks ==
    {[NoFiles EXCEPT ![q1] = f1, ![q4] = f4] :
        f1 \in {{}, {gThumbs}}, f4 \in {{}, {gThumbs, gIni}}}

FlatFolders == {ListOf(FlatDirs), ListOf(FlatDirs \ {q3}), <<q2, q3>>}

\* a caller calls find_empty_folders
CallFind(Roots) ==
    /\ calls < MaxCalls
    /\ \E root_paths \in Roots, ignore_known_garbage \in BOOLEAN, fast_rescan \in BOOLEAN :
         FindBegin(root_paths, ignore_known_garbage, fast_rescan)

\* a caller calls delete_empty_folders, on a list of its own or on the list
\* that find_empty_folders has just returned
CallDelete(Folders, Cbs) ==
    /\ calls < MaxCalls
    /\ \E folders \in Folders \cup (IF last.op = "find" /\ last.status = "returned"
                                    THEN {last.value} ELSE {}),
          has_cb \in Cbs, remove_known_garbage_files \in BOOLEAN,
          ignore_known_garbage_for_empty \in BOOLEAN, max_pass \in 0..MaxPass :
           DeleteBegin(folders, has_cb, remove_known_garbage_files,
                       ignore_known_garbage_for_empty, max_pass)

Finding ==
    \/ FindRoot
    \/ FindWalk
    \/ FindVisit
    \/ FindReturn

Deleting ==
    \/ DeleteAttempt
    \/ DeletePassEnd
    \/ DeleteReturn
    \/ DeleteSelectedTail

Environment ==
    \/ \E d \in Dirs, f \in Faults : FaultSet(d, f)
    \/ \E d \in Dirs : FaultClear(d)

\* a session of calls on the tree, nothing else touching the disk
Init == \E fs \in TreeDisks : Start(TreeDirs, fs, NoFaults)

Next ==
    \/ CallFind(TreeRoots)
    \/ CallDelete(TreeFolders, BOOLEAN)
    \/ Finding
    \/ Deleting

Spec == Init /\ [][Next]_vars

\* one call on the tree, while permissions change under it
NextFaults ==
    \/ calls = 0 /\ CallFind(TreeRoots)
    \/ calls = 0 /\ CallDelete(TreeFolders, {TRUE})
    \/ Finding
    \/ Deleting
    \/ Environment

SpecFaults == Init /\ [][NextFaults]_vars

\* one call of the deleter on the five directories, at most one of which can
\* never be removed
InitFlat ==
    \E fs \in FlatDisks, stuck \in FlatDirs \cup {None} :
        Start(FlatDirs, fs, [d \in Dirs |-> IF d = stuck THEN "normdir" ELSE "none"])

NextFlat ==
    \/ calls = 0 /\ CallDelete(FlatFolders, {TRUE})
    \/ Deleting

SpecFlat == InitFlat /\ [][NextFlat]_vars

\* the roots of a session of scans: they repeat, overlap, and p is no directory
ScanRoots == {<<pA>>, <<pB, pA, pAB>>, <<q1, pB, pB>>}

\* a session of scans of the tree, nothing touching the disk between them
ScanFind ==
    /\ calls < MaxScans
    /\ \E root_paths \in ScanRoots, ignore_known_garbage \in BOOLEAN, fast_rescan \in BOOLEAN :
         FindBegin(root_paths, ignore_known_garbage, fast_rescan)

NextScan ==
    \/ ScanFind
    \/ Finding

SpecScan == Init /\ [][NextScan]_vars

\* one scan of the tree, a/b and a/b/c holding any files
CountDisks ==
    {[NoFiles EXCEPT ![pB] = fb, ![pC] = fc] :
        fb \in SUBSET FileEntries, fc \in SUBSET FileEntries}

InitCount == \E fs \in CountDisks : Start(TreeDirs, fs, NoFaults)

NextCount ==
    \/ calls = 0 /\ ScanFind
    \/ Finding

SpecCount == InitCount /\ [][NextCount]_vars

\* one scan, and then the deleter on the list the scan returned, with the
\* flag of the scan and without the sweep
DeleteFound ==
    /\ calls = 1 /\ last.op = "find" /\ last.status = "returned"
    /\ DeleteBegin(last.value, FALSE, FALSE, last.args[2], 1)

NextBoth ==
    \/ calls = 0 /\ ScanFind
    \/ DeleteFound
    \/ Finding
    \/ Deleting

SpecBoth == InitCount /\ [][NextBoth]_vars

----------------------------------------------------------------------------
(* Terms of the claims *)

Returned == pc = "returned" /\ dl # NoDelete

\* the nesting a > a/b > a/b/c as the delete run found it: c empty, b holding
\* only c, a holding only b
Chain ==
    /\ {pA, pB, pC} \subseteq before.exists
    /\ before.files[pA] = {} /\ before.files[pB] = {} /\ before.files[pC] = {}

\* the delete run was given the list that the scanner had returned for root a
ScannedFromA ==
    /\ before.last.op = "find"
    /\ before.last.status = "returned"
    /\ before.last.args[1] = <<pA>>
    /\ dl.input = before.last.value

----------------------------------------------------------------------------
(* C1: cascading deletion. On the nesting a > b > c, one call of the deleter
   with max_pass >= 3 on the list the scanner returned for root a removes all
   three directories and returns 3. *)
C1_Cascade ==
    (Returned /\ Chain /\ ScannedFromA /\ dl.max_pass >= 3)
        => ({pA, pB, pC} \cap exists = {} /\ last.value = 3)

(* C2: bounded retries. On the nesting a > b > c, one call of the deleter with
   max_pass = 1 on the list the scanner returned for root a removes only c,
   returns 1, and a and b stay on disk. *)
C2_BoundedRetries ==
    (Returned /\ Chain /\ ScannedFromA /\ dl.max_pass = 1)
        => (removed = {pC} /\ last.value = 1 /\ {pA, pB} \subseteq exists
            /\ pC \notin exists)

C2_Witness ==
    Returned /\ Chain /\ ScannedFromA /\ dl.max_pass = 1 /\ removed = {pC}

----------------------------------------------------------------------------
\* entries that the garbage sweeper removes
IsGarbageFile(e) == e.kind = "file" /\ e.name \in IGNORABLE_FILES

\* d held nothing when the run began, or only what the run's sweep removes
EmptyOnceSwept(d) ==
    /\ d \in before.exists
    /\ {c \in before.exists : Dirname(c) = d} = {}
    /\ \/ before.files[d] = {}
       \/ dl.remove_known_garbage_files /\ \A e \in before.files[d] : IsGarbageFile(e)

\* the directories of the input whose removal fails on every attempt
Stuck == {d \in Range(dl.input) : before.fault[d] = "normdir"}

\* five existing candidates, empty once swept, exactly one of them stuck
FiveOneStuck ==
    /\ Returned
    /\ dl.max_pass >= 1
    /\ Cardinality(Range(dl.input)) = 5
    /\ \A d \in Range(dl.input) : EmptyOnceSwept(d)
    /\ Cardinality(Stuck) = 1

(* C3 as stated: partial failure isolation. If exactly one of five existing,
   effectively empty candidates can never be removed, one call of the deleter
   deletes the other four, returns 4, and exactly one error log entry is
   produced for the whole run. *)
C3_OneLogEntry ==
    FiveOneStuck
        => (removed = Range(dl.input) \ Stuck /\ last.value = 4 /\ Len(runLog) = 1)

(* C3 as amended: the other four are deleted and 4 is returned, and the
   directory that cannot be removed is logged once in every pass that attempts
   it: the first pass and, because the first pass deleted something, a second
   one when max_pass >= 2. *)
C3_PartialFailure ==
    FiveOneStuck
        => /\ removed = Range(dl.input) \ Stuck
           /\ Stuck \subseteq exists
           /\ last.value = 4
           /\ Len(runLog) = (IF dl.max_pass >= 2 THEN 2 ELSE 1)
           /\ \A i \in 1..Len(runLog) : runLog[i].target \in Stuck

C3_Witness == FiveOneStuck /\ dl.max_pass = 3 /\ Len(runLog) = 2 /\ last.value = 4

----------------------------------------------------------------------------
(* C4: the integer that delete_empty_folders returns is the number of
   directories this call removed from disk; a candidate that is no directory
   any more when it is attempted is dropped and is not counted. *)
C4_CountIsRemoved ==
    (pc = "returned" /\ last.op = "delete") => last.value = Cardinality(removed)

----------------------------------------------------------------------------
\* the step is a visit of the scanner whose enumeration of the directory failed
VisitFailed ==
    /\ pc = "find" /\ sc.stack # <<>> /\ Head(sc.stack).yield
    /\ sc' # sc
    /\ lastEval'.p = Head(sc.stack).path
    /\ lastEval'.failed

\* the step is an attempt of the deleter on a directory that cannot be listed
AttemptUnreadable ==
    /\ pc = "attempt" /\ dl.i <= Len(dl.pass) /\ dl'.i = dl.i + 1
    /\ IsDir(dl.pass[dl.i])
    /\ ScandirErr(exists, fault, dl.pass[dl.i]) # "ok"

\* the log entries that the step adds to the run's log
Logged == SubSeq(runLog', Len(runLog) + 1, Len(runLog'))

(* C5: fail-safe on unreadable directories. Whenever the enumeration of a
   directory fails, the directory is evaluated as non-empty (effective count
   1) and an error log entry for it is recorded: the scanner does not report
   it as empty and the deleter does not remove it. *)
C5_FailSafe ==
    [][/\ VisitFailed =>
            /\ ~lastEval'.ret /\ lastEval'.count = 1
            /\ sc'.found = sc.found
            /\ Logged # <<>> /\ \A i \in 1..Len(Logged) : Logged[i].target = lastEval'.p
            /\ sc.fast_rescan => SCAN_CACHE'[lastEval'.p][2] = 1
       /\ AttemptUnreadable =>
            /\ dl.pass[dl.i] \in exists' /\ removed' = removed
            /\ dl'.folders = dl.folders
            /\ Logged # <<>> /\ \A i \in 1..Len(Logged) : Logged[i].target = dl.pass[dl.i]
      ]_vars

C5_Witness == pc = "find" /\ lastEval.failed /\ ~lastEval.ret /\ runLog # <<>>

----------------------------------------------------------------------------
(* C6: failure isolation. Whatever file system calls fail on single
   directories, find_empty_folders and delete_empty_folders return to the
   caller without raising, every candidate is still attempted, and the
   directories left in the candidate list stay on disk. *)
C6_NeverRaises ==
    /\ last.status # "raised"
    /\ (Returned /\ dl.max_pass >= 1) => dl.curr >= dl.total_target
    /\ Returned => \A d \in Range(dl.folders) : d \in before.exists => d \in exists

----------------------------------------------------------------------------
\* the run of delete_empty_folders in progress or just returned
InRun == pc \in {"attempt", "post", "returned"} /\ dl # NoDelete

(* C7: progress monotonicity. Across one run of delete_empty_folders the
   successive "current" values passed to progress_cb are non-decreasing and
   never exceed "total", "total" is in every call the number of distinct
   input paths, and the last call reports current = total. *)
C7_ProgressMonotone ==
    InRun =>
        /\ \A i \in 1..Len(progress) :
               /\ progress[i].total = Cardinality(Range(dl.input))
               /\ progress[i].current <= progress[i].total
               /\ i > 1 => progress[i - 1].current <= progress[i].current
        /\ (pc = "returned" /\ progress # <<>>) =>
               progress[Len(progress)].current = progress[Len(progress)].total

C7_Witness ==
    /\ Returned /\ dl.attempt >= 2 /\ dl.curr > dl.total_target
    /\ Len(progress) = dl.curr
    /\ progress[Len(progress)].current = dl.total_target

----------------------------------------------------------------------------
(* C8: every run of delete_empty_folders that was given a callback ends with
   a last progress callback (total, total, "done"), however many passes ran. *)
C8_FinalDone ==
    (pc = "returned" /\ last.op = "delete" /\ dl.has_cb) =>
        /\ progress # <<>>
        /\ progress[Len(progress)] = [current |-> dl.total_target,
                                       total |-> dl.total_target,
                                       name |-> <<"d", "o", "n", "e">>]

----------------------------------------------------------------------------
\* d was a candidate that held only ignorable files, and at least one, when
\* the run began
OnlyGarbage(d) ==
    /\ d \in Range(dl.input) /\ d \in before.exists
    /\ ~\E c \in before.exists : Dirname(c) = d
    /\ before.files[d] # {}
    /\ \A e \in before.files[d] : IsGarbageFile(e)

(* C9: garbage-first deletion. A candidate directory that holds only
   ignorable files is deleted by a run with remove_known_garbage_files set;
   with remove_known_garbage_files and ignore_known_garbage_for_empty both
   unset the directory and its files are left as they were. *)
C9_GarbageFirst ==
    Returned =>
        \A d \in Dirs : OnlyGarbage(d) =>
            /\ (dl.remove_known_garbage_files /\ dl.max_pass >= 1) =>
                   d \in removed /\ d \notin exists
            /\ (~dl.remove_known_garbage_files /\ ~dl.ignore_known_garbage_for_empty) =>
                   d \in exists /\ d \notin removed /\ files[d] = before.files[d]

C9_Witness ==
    /\ Returned /\ dl.remove_known_garbage_files /\ ~dl.ignore_known_garbage_for_empty
    /\ \E d \in Dirs : OnlyGarbage(d) /\ d \in removed /\ Cardinality(before.files[d]) = 2

----------------------------------------------------------------------------
(* C10: cache reuse. With fast_rescan set, an evaluation of a directory whose
   modification time is the one its previous evaluation saw does not
   enumerate the directory and returns what the previous evaluation returned;
   with fast_rescan unset an evaluation neither reads nor writes the cache. *)
C10_CacheReuse ==
    lastEval.p # <<>> =>
        /\ (/\ lastEval.fast_rescan /\ ~lastEval.raised
            /\ lastEval.prev # None /\ lastEval.prev[1] = lastEval.st_mtime) =>
               ~lastEval.enumerated /\ lastEval.ret = lastEval.prev[2]
        /\ ~lastEval.fast_rescan => ~lastEval.cacheRead /\ lastEval.cacheSame

C10_Witness ==
    /\ lastEval.p # <<>> /\ lastEval.fast_rescan
    /\ lastEval.prev # None /\ lastEval.prev[1] = lastEval.st_mtime
    /\ ~lastEval.enumerated /\ lastEval.ret

----------------------------------------------------------------------------
\* the call of find_empty_folders in progress has visited everything, and the
\* call before it was a call of find_empty_folders with the same arguments
SecondScanDone ==
    /\ pc = "find" /\ sc.stack = <<>> /\ sc.r > Len(sc.root_paths)
    /\ last.op = "find" /\ last.status = "returned"
    /\ last.args = <<sc.root_paths, sc.ignore_known_garbage, sc.fast_rescan>>

(* C11: scan idempotence. Two consecutive calls of find_empty_folders with the
   same roots and flags, the disk not changing between them, return the same
   list, with fast_rescan set or unset and whatever the cache held before the
   first of them. *)
C11_ScanIdempotent ==
    SecondScanDone => SortedSet(sc.found) = last.value

C11_Witness ==
    /\ SecondScanDone /\ calls = 3 /\ sc.fast_rescan /\ ~sc.ignore_known_garbage
    /\ SortedSet(sc.found) = last.value /\ last.value = <<pC, pAB>>
    /\ SCAN_CACHE # <<>>

----------------------------------------------------------------------------
\* d is r or lies below r in the tree of directories
InSubtree(d, r) ==
    \/ d = r
    \/ Len(d) > Len(r) + 1 /\ StartsWith(d, r) /\ d[Len(r) + 1] = "/"

\* d holds no subdirectory and no entry that counts
EmptyOnDisk(d, ignore_known_garbage) ==
    /\ ~\E c \in exists : Dirname(c) = d
    /\ \A e \in files[d] : ignore_known_garbage /\ e.name \in IGNORABLE_FILES

\* the last call was a call of find_empty_folders and it has returned
ScanReturned == pc = "idle" /\ last.op = "find" /\ last.status = "returned"

\* the directories that the emptiness check of the returned scan took for empty
\* among those below the roots that are directories
ExpectedFound ==
    LET roots == {r \in Range(last.args[1]) : r \in exists}
        below == {d \in exists : \E r \in roots : InSubtree(d, r)}
    IN  {d \in below :
            IF last.args[3]
            THEN evalHist[d] # None /\ evalHist[d][2]
            ELSE EmptyOnDisk(d, last.args[2])}

(* C12: find_empty_folders returns exactly the directories below the roots
   that are directories for which the (cached) emptiness check is true, each
   once even when roots repeat or overlap, in lexicographic order of the
   paths; a root that is no directory is skipped, without a log entry, and
   contributes nothing. *)
C12_ScanResult ==
    ScanReturned =>
        /\ Range(last.value) = ExpectedFound
        /\ Len(last.value) = Cardinality(ExpectedFound)
        /\ \A i, j \in 1..Len(last.value) : i < j => StrLess(last.value[i], last.value[j])
        /\ \A t \in DOMAIN logFiles : logFiles[t] = NoLog

C12_Witness ==
    /\ ScanReturned /\ last.args[1] = <<pB, pA, pAB>> /\ last.args[2]
    /\ last.value = <<pC, pAB>>

----------------------------------------------------------------------------
\* the scan in progress has just counted the entries of a directory it could list
Counted == pc = "find" /\ lastEval.p # <<>> /\ lastEval.enumerated /\ ~lastEval.failed

(* C13: _effective_count(dir, ignore_known_garbage) is 0 exactly when dir has
   no subdirectory and no file other than, when ignore_known_garbage is set,
   files named Thumbs.db, desktop.ini or .DS_Store; it is non-zero for every
   directory that holds a subdirectory, whatever else it holds. *)
C13_EffectiveCount ==
    Counted =>
        /\ lastEval.count = 0 <=> EmptyOnDisk(lastEval.p, sc.ignore_known_garbage)
        /\ (\E c \in exists : Dirname(c) = lastEval.p) => lastEval.count # 0

C13_Witness ==
    /\ Counted /\ lastEval.p = pC /\ sc.ignore_known_garbage
    /\ files[pC] = {gThumbs, gIni, gLink} /\ lastEval.count = 0

----------------------------------------------------------------------------
(* C14: progress is counted once per directory. Across the passes of one run
   of delete_empty_folders no directory gets a second progress callback, also
   when it is retried in a later pass, and the reported "current" is the
   number of distinct directories attempted so far. *)
C14_CountedOnce ==
    (InRun /\ dl.has_cb) =>
        /\ Len(progress) <= dl.total_target
        /\ \A i, j \in 1..Len(progress) : i < j => progress[i].name # progress[j].name
        /\ \A i \in 1..Len(progress) :
               progress[i].current = Cardinality({progress[k].name : k \in 1..i})

----------------------------------------------------------------------------
\* the candidates of the pass in progress that the pass removed from disk
RemovedInPass == Range(dl.pass) \cap removed

\* the step ends a pass and starts the next one
NextPass == pc = "attempt" /\ pc' = "attempt" /\ dl'.attempt = dl.attempt + 1

\* the run is within max_pass passes and no pass holds a candidate twice
PassesBounded ==
    pc = "attempt" =>
        /\ dl.attempt <= dl.max_pass
        /\ dl.i <= Len(dl.pass) + 1
        /\ \A i, j \in 1..Len(dl.pass) : i < j => dl.pass[i] # dl.pass[j]

(* C15: delete_empty_folders runs at most max_pass passes, attempts each
   candidate at most once per pass, and starts no further pass after a pass
   in which no directory was removed from disk, a pass that only found
   candidates already gone being such a pass. *)
C15_StopsWhenNothingDeleted ==
    []PassesBounded /\ [][NextPass => RemovedInPass # {}]_vars

----------------------------------------------------------------------------
\* the cache holds no key that starts with the path of a directory in S
NoKeyUnder(S) == \A d \in S, k \in DOMAIN SCAN_CACHE : ~StartsWith(k, d)

(* C16: cache invalidation on deletion. When delete_empty_folders returns,
   the scan cache holds no entry whose key starts with the path of a
   directory that the call removed. *)
C16_DeletedNotCached ==
    Returned => NoKeyUnder(removed)

----------------------------------------------------------------------------
(* C17: post-run invalidation. When delete_empty_folders returns, the scan
   cache holds no entry whose key starts with the path of a directory that is
   still in the candidate list. *)
C17_LeftoverNotCached ==
    Returned => NoKeyUnder(Range(dl.folders))

C17_Witness ==
    /\ Returned /\ dl.folders = <<pB>>
    /\ {pB, pC} \subseteq DOMAIN before.cache
    /\ DOMAIN SCAN_CACHE = DOMAIN before.cache \ {pB, pC}
    /\ SCAN_CACHE # <<>>

----------------------------------------------------------------------------
\* the string k begins with the string r
HasPrefix(k, r) == Len(k) >= Len(r) /\ SubSeq(k, 1, Len(r)) = r

\* the keys of the cache that begin with the path of no leftover candidate
KeysKept ==
    {k \in DOMAIN before.cache : ~\E i \in 1..Len(dl.folders) : HasPrefix(k, dl.folders[i])}

(* C18: cache_clear_under(root) removes exactly the entries whose key starts
   with root as a string, so that clearing "a" also clears "ab", and leaves
   key, modification time and count of every other entry as they were; seen
   on the calls that delete_empty_folders makes for its leftover candidates. *)
C18_ClearUnder ==
    Returned => SCAN_CACHE = [k \in KeysKept |-> before.cache[k]]

C18_Witness ==
    /\ Returned /\ Range(dl.folders) = {pA, pB, pC}
    /\ DOMAIN before.cache = {pA, pB, pC, pAB}
    /\ SCAN_CACHE = <<>>

----------------------------------------------------------------------------
(* C19: within every pass of delete_empty_folders the candidates are
   attempted longest path first: no candidate comes after one with a strictly
   shorter path string, so a candidate that lies inside another candidate is
   attempted before it. *)
C19_LongestFirst ==
    pc = "attempt" =>
        \A i, j \in 1..Len(dl.pass) :
            /\ i < j => Len(dl.pass[i]) >= Len(dl.pass[j])
            /\ (i # j /\ InSubtree(dl.pass[i], dl.pass[j])) => i < j

C19_Witness ==
    /\ pc = "attempt" /\ dl.input = <<pA, pB, pC>> /\ dl.pass = <<pC, pB, pA>>
    /\ dl.i = 4 /\ removed = {pA, pB, pC}

----------------------------------------------------------------------------
(* C20: the cached verdict agrees with the uncached one. Whatever evaluations
   came before, with whatever flags, an evaluation with fast_rescan set, on a
   disk whose content never changed without a change of the modification
   time, returns what _effective_count(dir, ignore_known_garbage) == 0
   computed afresh with the same flag would return. *)
C20_CacheAgrees ==
    (pc = "find" /\ lastEval.p # <<>> /\ lastEval.fast_rescan) =>
        (lastEval.ret <=> EmptyOnDisk(lastEval.p, sc.ignore_known_garbage))

----------------------------------------------------------------------------
\* the directories and the files that the step takes from the disk
DirsGone == exists \ exists'
FilesGone(d) == files[d] \ files'[d]

(* C21: delete_empty_folders removes no file that is not an ignorable file,
   removes no file at all when remove_known_garbage_files is unset, and every
   directory it removes holds no subdirectory and no file at the moment of
   its removal, whatever the two flags are. *)
C21_RemovesOnlyEmpty ==
    [][/\ \A d \in Dirs : \A e \in FilesGone(d) : IsGarbageFile(e)
       /\ ~dl.remove_known_garbage_files => files' = files
       /\ \A d \in DirsGone :
             /\ ~\E c \in exists : Dirname(c) = d
             /\ files'[d] = {}
             /\ FilesGone(d) # {} => dl.remove_known_garbage_files
      ]_vars

C21_Witness ==
    /\ Returned /\ ~dl.remove_known_garbage_files /\ dl.ignore_known_garbage_for_empty
    /\ dl.input = <<pC, pAB, pC>> /\ removed = {pC}
    /\ pAB \in exists /\ files[pAB] = {gThumbs} /\ files = before.files

----------------------------------------------------------------------------
(* C22: delete_empty_folders removes only directories of the list its caller
   passed: every directory that existed when the call began and is not in the
   list, the parent of a candidate in particular, still exists. *)
C22_OnlyListed ==
    InRun =>
        /\ removed \subseteq Range(dl.input)
        /\ \A d \in before.exists : d \notin Range(dl.input) => d \in exists

C22_Witness ==
    /\ Returned /\ dl.input = <<pC>> /\ removed = {pC} /\ dl.max_pass = 3
    /\ pB \in exists /\ EmptyOnDisk(pB, FALSE)

----------------------------------------------------------------------------
\* some log file on disk holds the record rec
OnDisk(rec) == \E t \in DOMAIN logFiles : logFiles[t] = rec

(* C23: every failure that a run of delete_empty_folders records leaves a
   record naming its target path that still exists when the run ends: a later
   failure of the run does not overwrite the record of an earlier one, also
   when both are logged under the same timestamp. *)
C23_LogsKept ==
    Returned => \A i \in 1..Len(runLog) : OnDisk(runLog[i])

----------------------------------------------------------------------------
\* what os.scandir may end with
ScandirEnds == {"ok", "PermissionError", "FileNotFoundError"}

\* the two tests agree on directory d, however os.scandir ends and orders it
TestsAgree(d) ==
    \A flag \in BOOLEAN, err \in ScandirEnds : \A listing \in Listings(exists, files, d) :
        IsEffectivelyEmpty(d, flag, err, listing).ret
            <=> (EffectiveCount(d, flag, err, listing).ret = 0)

\* the run of the deleter took d for empty: it removed d, or os.rmdir refused
JudgedEmpty(d) ==
    \/ d \in removed
    \/ \E i \in 1..Len(runLog) : runLog[i] = [target |-> d, err |-> "OSError"]

(* C24: the emptiness test of the deleter and that of the scanner coincide.
   For every directory content, both values of the flag, and also when the
   listing fails, _is_effectively_empty(dir, flag) is true exactly when
   _effective_count(dir, flag) == 0, so a directory that the scanner reports
   as empty is taken for empty by the deleter on an unchanged disk. *)
C24_TestsCoincide ==
    /\ \A d \in exists : TestsAgree(d)
    /\ (Returned /\ before.last.op = "find") => \A d \in Range(dl.input) : JudgedEmpty(d)

C24_Witness ==
    /\ Returned /\ before.last.op = "find" /\ dl.ignore_known_garbage_for_empty
    /\ dl.input = <<pC, pAB>> /\ removed = {pAB}
    /\ files[pC] = {gThumbs, gIni, gLink} /\ JudgedEmpty(pC)

====
